---- MODULE Spec2Model ----
(***************************************************************************)
(* A model of windows-permissions-rs' safe structures: Sid and             *)
(* SecurityDescriptor (src/src/structures.rs) and the                      *)
(* GetSidIdentifierAuthority wrapper                                       *)
(* (src/src/wrappers/get_sid_identifier_authority.rs).                     *)
(*                                                                         *)
(* Memory is modelled at the level the code depends on: a pointer is its   *)
(* PtrSize little-endian bytes, a native SID record starts with            *)
(* Revision, SubAuthorityCount and the 6 bytes of IdentifierAuthority, and *)
(* a Sid value is a wrapper of PtrSize bytes holding the handle.  A `&Sid` *)
(* is an address: that of a wrapper (a reference to an owning Sid) or the  *)
(* pointer ref_from_nonnull transmuted into a reference.                   *)
(***************************************************************************)
EXTENDS Integers, Sequences, FiniteSets, TLC

\* ---------------------------------------------------------------- bounds

\* size of NonNull<c_void>, the only field of struct Sid (64-bit build)
PtrSize == 8
\* "There must be between 1 and 8 sub-authorities"
MaxSubAuths == 8
\* `index: u8`
U8Max == 255
\* sub-authority sequences of length 1..MaxLen (and MaxSubAuths) are drawn
MaxLen == 1

\* ------------------------------------------------------------- addresses

Null == [i \in 1..PtrSize |-> 0]

\* The caller's two variables of type Sid, and its SecurityDescriptor.
Slots == {"a", "b"}
Owners == Slots \cup {"sd"}

\* The block the native allocator returns for a buffer that owner o is to hold
\* (LocalAlloc returns 8-byte aligned blocks; a released block is used again).
BlockOf(o) ==
    CASE o = "a" -> <<64, 16, 75, 58, 242, 1, 0, 0>>
      [] o = "b" -> <<128, 16, 75, 58, 242, 1, 0, 0>>
      [] OTHER -> <<192, 16, 75, 58, 242, 1, 0, 0>>

HeapAddrs == {BlockOf(o) : o \in Owners}

\* A pointer into the buffer that starts at p (no carry: off < 64).
PtrAdd(p, off) == [p EXCEPT ![1] = p[1] + off]

\* Where a self-relative security descriptor keeps its four parts.
SdOffsets == [owner |-> 20, group |-> 32, dacl |-> 44, sacl |-> 52]

OwnerPtr(b) == PtrAdd(b, SdOffsets.owner)
GroupPtr(b) == PtrAdd(b, SdOffsets.group)
DaclPtr(b) == PtrAdd(b, SdOffsets.dacl)
SaclPtr(b) == PtrAdd(b, SdOffsets.sacl)

\* Where the Sid in variable s lives (its wrapper).
WrapAddr(s) == IF s = "a" THEN <<16, 240, 47, 155, 12, 0, 0, 0>>
               ELSE <<24, 240, 47, 155, 12, 0, 0, 0>>

\* A non-null pointer that addresses nothing (an argument of a failed retrieval).
DanglingPtr == <<8, 0, 1, 0, 0, 0, 0, 0>>

\* Where a SID record can be: at the start of a Sid's block, and at the owner
\* and group offsets of the descriptor's.
SidAddrs == {BlockOf(s) : s \in Slots} \cup {OwnerPtr(BlockOf("sd")), GroupPtr(BlockOf("sd"))}

\* ---------------------------------------------------------------- inputs

AuthVals == {<<0, 0, 0, 0, 0, 5>>, <<0, 0, 0, 0, 0, 1>>}

SubAuthVals == <<21, 544>>

\* n sub-authorities, all SubAuthVals[1] but the k-th (all when k = 0).
SubAuthSeq(n, k) == [i \in 1..n |-> IF i = k THEN SubAuthVals[2] ELSE SubAuthVals[1]]

SubAuthLens == (1..MaxLen) \cup {MaxSubAuths}

\* One sequence of each length, and one that differs from the longest in its
\* last value only.
SubAuthSeqs == {SubAuthSeq(n, 0) : n \in SubAuthLens}
                   \cup {SubAuthSeq(MaxSubAuths, MaxSubAuths)}

\* The arguments Sid::new is called with: every sequence under the first
\* authority, and the shortest under the others.
SidInputs == {<<a, u>> \in AuthVals \X SubAuthSeqs :
                a = <<0, 0, 0, 0, 0, 5>> \/ u = SubAuthSeq(1, 0)}

IndexVals == {0, 1, MaxSubAuths - 1, MaxSubAuths, U8Max}

NoSid == [live |-> FALSE, auth |-> <<>>, subs |-> <<>>]

SidRec(auth, subs) == [live |-> TRUE, auth |-> auth, subs |-> subs]

\* The SIDs a retrieved security descriptor embeds.
EmbeddedOwner == SidRec(<<0, 0, 0, 0, 0, 5>>, <<32, 544>>)
EmbeddedGroup == SidRec(<<0, 0, 0, 0, 0, 5>>, <<18>>)

\* NonNull::new: None for a null pointer, Some(p) otherwise.
NonNullNew(p) == [some |-> p # Null, ptr |-> p]

NoSD == [sd |-> Null, owner |-> NonNullNew(Null), group |-> NonNullNew(Null),
         dacl |-> NonNullNew(Null), sacl |-> NonNullNew(Null)]

NoArgs == [sd |-> Null, owner |-> Null, group |-> Null, dacl |-> Null, sacl |-> Null]

NoView == [ref |-> Null, anchor |-> "none"]

VARIABLES
    alloc,      \* HeapAddrs -> "free" | "live"
    sidAt,      \* SidAddrs -> the SID record stored there (NoSid: none)
    owned,      \* Slots -> the handle the Sid in that variable holds (Null: no Sid)
    sdv,        \* the caller's SecurityDescriptor (NoSD: none)
    view,       \* the caller's borrowed &Sid and what it borrows from
    origin,     \* Slots -> how that Sid was made: "new", "raw" ("none": no Sid)
    given,      \* the five pointers from_raw was given for sdv
    badFrees,   \* the pointers LocalFree was called on that were no live block
    ret         \* the last operation: op, args, res, calls (native calls it made)

vars == <<alloc, sidAt, owned, origin, sdv, given, view, badFrees, ret>>

\* ------------------------------------------------------- results, calls

Ok(v) == [tag |-> "ok", val |-> v]
\* an access violation: the process is gone
Fault == [tag |-> "fault", val |-> 0]
Panic == [tag |-> "panic", val |-> 0]
\* io::Error::last_os_error()
OsError == [tag |-> "err", val |-> 0]
SomeVal(v) == [tag |-> "some", val |-> v]
NoneVal == [tag |-> "none", val |-> 0]

\* One native call (or raw load) an operation made: on pointers `args`, at index n.
Call(fn, args, n) == [fn |-> fn, args |-> args, n |-> n]

Outcome(res, calls) == [res |-> res, calls |-> calls]

\* ---------------------------------------------------------------- memory

IsSidRecord(p) == p \in SidAddrs /\ sidAt[p].live

WrapperSlots(p) == {s \in Slots : WrapAddr(s) = p /\ owned[s] # Null}

IsWrapper(p) == WrapperSlots(p) # {}

\* The first PtrSize bytes of a native SID record: Revision, SubAuthorityCount,
\* IdentifierAuthority.Value[0..5].
HeaderBytes(rec) == <<1, Len(rec.subs)>> \o rec.auth

\* The PtrSize bytes stored at address p.
LoadWord(p) ==
    IF IsWrapper(p) THEN owned[CHOOSE s \in WrapperSlots(p) : TRUE]
    ELSE IF IsSidRecord(p) THEN HeaderBytes(sidAt[p])
    ELSE DanglingPtr

\* What a read of unmapped or foreign memory can produce.
UBBytes == {Fault} \cup {Ok(b) : b \in {0, U8Max}}
UBWords == {Fault} \cup {Ok(w) : w \in {0, SubAuthVals[1]}}
UBAuths == {Fault} \cup {Ok(a) : a \in AuthVals}
UBBools == {Fault, Ok(TRUE), Ok(FALSE)}

\* ----------------------------------------------------- the native calls

\* GetSidIdentifierAuthority(pSid) returns &pSid->IdentifierAuthority, the 6
\* bytes at pSid + 2; the caller then reads them.
NativeIdentifierAuthority(p) ==
    IF IsSidRecord(p) THEN {Ok(sidAt[p].auth)}
    ELSE IF IsWrapper(p) THEN {Ok(SubSeq(LoadWord(p), 3, PtrSize))}
    ELSE UBAuths

\* *GetSidSubAuthorityCount(pSid): the byte at pSid + 1.
NativeSubAuthorityCount(p) ==
    IF IsSidRecord(p) THEN {Ok(Len(sidAt[p].subs))}
    ELSE IF IsWrapper(p) THEN {Ok(LoadWord(p)[2])}
    ELSE UBBytes

\* *GetSidSubAuthority(pSid, n): the u32 at pSid + 8 + 4n.
NativeSubAuthority(p, n) ==
    IF IsSidRecord(p) /\ n < Len(sidAt[p].subs) THEN {Ok(sidAt[p].subs[n + 1])}
    ELSE UBWords

\* EqualSid(p, q): the two records have the same revision, authority and
\* sub-authorities.
NativeEqualSid(p, q) ==
    IF IsSidRecord(p) /\ IsSidRecord(q)
    THEN {Ok(sidAt[p].auth = sidAt[q].auth /\ sidAt[p].subs = sidAt[q].subs)}
    ELSE UBBools

\* ------------------------------------------------------------ mod sid

drop_Sid_twice(h) == <<h, h>>

\* impl Drop for Sid: the pointers handed to LocalFree.
drop_Sid(h) == <<h>>

\* transmute(ptr): the reference is the pointer.
ref_from_nonnull(ptr) == ptr

\* Sid(ptr): the content of the new wrapper.
owned_from_nonnull(ptr) == ptr

\* self.0.as_ptr(), self the address of a Sid
as_ptr(self) == LoadWord(self)

\* The pointer a wrapper function hands to the native call for `sid: &Sid`.
HandleArg(sid) == as_ptr(sid)

GetSidIdentifierAuthority(sid) ==
    {Outcome(r, <<Call("GetSidIdentifierAuthority", <<sid>>, 0)>>) :
        r \in NativeIdentifierAuthority(sid)}

GetSidSubAuthorityCount(sid) ==
    LET p == HandleArg(sid)
    IN  {Outcome(r, <<Call("GetSidSubAuthorityCount", <<p>>, 0)>>) :
            r \in NativeSubAuthorityCount(p)}

GetSidSubAuthorityChecked(sid, index) ==
    LET p == HandleArg(sid)
        cnt == Call("GetSidSubAuthorityCount", <<p>>, 0)
        get == Call("GetSidSubAuthority", <<p>>, index)
    IN  UNION {
            IF c.tag # "ok" THEN {Outcome(Fault, <<cnt>>)}
            ELSE IF index < c.val
            THEN {Outcome(IF v.tag = "ok" THEN SomeVal(v.val) ELSE Fault, <<cnt, get>>) :
                    v \in NativeSubAuthority(p, index)}
            ELSE {Outcome(NoneVal, <<cnt>>)}
          : c \in NativeSubAuthorityCount(p)}

EqualSid(sid1, sid2) ==
    LET p == HandleArg(sid1)
        q == HandleArg(sid2)
    IN  {Outcome(r, <<Call("EqualSid", <<p, q>>, 0)>>) : r \in NativeEqualSid(p, q)}

sub_authority_count(self) == GetSidSubAuthorityCount(self)

id_authority(self) == GetSidIdentifierAuthority(self)

sub_authority(self, index) == GetSidSubAuthorityChecked(self, index)

eq(self, other) == EqualSid(self, other)

new_unvalidated(allocated, valid) == IF ~allocated THEN "err" ELSE "ok"

\* Sid::new's two `?`: allocated says whether AllocateAndInitializeSid returned
\* Ok, valid whether IsValidSid did.
new(allocated, valid) ==
    IF ~allocated THEN "err"
    ELSE IF ~valid THEN "err"
    ELSE "ok"

\* ------------------------------------------------------------- mod sd

from_raw_unchecked(sd, owner, group, dacl, sacl) ==
    Outcome(Ok([sd |-> sd, owner |-> NonNullNew(owner), group |-> NonNullNew(group),
                dacl |-> NonNullNew(dacl), sacl |-> NonNullNew(sacl)]), <<>>)

from_raw(sd, owner, group, dacl, sacl) ==
    IF sd = Null THEN Outcome(Panic, <<>>)
    ELSE Outcome(Ok([sd |-> sd, owner |-> NonNullNew(owner), group |-> NonNullNew(group),
                     dacl |-> NonNullNew(dacl), sacl |-> NonNullNew(sacl)]), <<>>)

owner_of_group(self) ==
    IF self.group.some THEN SomeVal(ref_from_nonnull(self.group.ptr)) ELSE NoneVal

\* Option<&Sid>
owner(self) ==
    IF self.owner.some THEN SomeVal(ref_from_nonnull(self.owner.ptr)) ELSE NoneVal

group(self) ==
    IF self.group.some THEN SomeVal(ref_from_nonnull(self.group.ptr)) ELSE NoneVal

\* impl Drop for SecurityDescriptor: the pointers handed to LocalFree.
drop_SecurityDescriptor(self) == <<self.sd>>

\* ------------------------------------------------------------- the state

NoOp == [op |-> "init", args |-> <<>>, res |-> Ok(0), calls |-> <<>>]

\* An access violation ends the process.
Running == ret.res.tag # "fault"

\* The `&Sid` values the caller can form: references to its owning Sids, and
\* its borrowed view.
Refs == {WrapAddr(s) : s \in {t \in Slots : owned[t] # Null}}
            \cup (IF view = NoView THEN {} ELSE {view.ref})

Range(seq) == {seq[i] : i \in DOMAIN seq}

\* LocalFree called on each pointer of seq in turn, from heap state al:
\* the heap state after, and the pointers that were no live block.
RECURSIVE FreeAll(_, _)
FreeAll(seq, al) ==
    IF seq = <<>> THEN [alloc |-> al, bad |-> {}]
    ELSE LET p == Head(seq)
             ok == p \in HeapAddrs /\ al[p] = "live"
             rest == FreeAll(Tail(seq), IF ok THEN [al EXCEPT ![p] = "free"] ELSE al)
         IN  [alloc |-> rest.alloc, bad |-> rest.bad \cup (IF ok THEN {} ELSE {p})]

InBlock(p, b) == p \in {b, OwnerPtr(b), GroupPtr(b)}

\* The SID records left once the blocks that al no longer holds are gone.
SidAtAfter(recs, al) ==
    [p \in SidAddrs |->
        IF \E b \in HeapAddrs : InBlock(p, b) /\ al[b] = "free" THEN NoSid ELSE recs[p]]

FreeCalls(seq) == [i \in DOMAIN seq |-> Call("LocalFree", <<seq[i]>>, 0)]

Init ==
    /\ alloc = [a \in HeapAddrs |-> "free"]
    /\ sidAt = [p \in SidAddrs |-> NoSid]
    /\ owned = [s \in Slots |-> Null]
    /\ origin = [s \in Slots |-> "none"]
    /\ sdv = NoSD
    /\ given = NoArgs
    /\ view = NoView
    /\ badFrees = {}
    /\ ret = NoOp

\* ------------------------------------------------------------ operations

\* let <s> = Sid::new(id_auth, sub_auths): allocated and valid are what the
\* native allocation and the native validity check report.
SidNew(s, id_auth, sub_auths, allocated, valid) ==
    /\ Running /\ owned[s] = Null
    /\ LET h == BlockOf(s)
           made == [sidAt EXCEPT ![h] = SidRec(id_auth, sub_auths)]
           live == [alloc EXCEPT ![h] = "live"]
           alloc_call == Call("AllocateAndInitializeSid", <<>>, Len(sub_auths))
           valid_call == Call("IsValidSid", <<h>>, 0)
           args == [slot |-> s, id_auth |-> id_auth, sub_auths |-> sub_auths,
                    allocated |-> allocated, valid |-> valid, handle |-> h]
           \* the early return drops the Sid
           freed == FreeAll(drop_Sid(h), live)
       IN  IF ~allocated
           THEN /\ ret' = [op |-> "new", args |-> args,
                           res |-> IF new(allocated, valid) = "ok" THEN Ok(h) ELSE OsError,
                           calls |-> <<alloc_call>>]
                /\ UNCHANGED <<alloc, sidAt, owned, origin, badFrees>>
           ELSE IF new(allocated, valid) = "ok"
           THEN /\ alloc' = live
                /\ sidAt' = made
                /\ owned' = [owned EXCEPT ![s] = h]
                /\ origin' = [origin EXCEPT ![s] = "new"]
                /\ ret' = [op |-> "new", args |-> args, res |-> Ok(h),
                           calls |-> <<alloc_call, valid_call>>]
                /\ UNCHANGED badFrees
           ELSE /\ alloc' = freed.alloc
                /\ sidAt' = SidAtAfter(made, freed.alloc)
                /\ badFrees' = badFrees \cup freed.bad
                /\ ret' = [op |-> "new", args |-> args, res |-> OsError,
                           calls |-> <<alloc_call, valid_call>> \o FreeCalls(drop_Sid(h))]
                /\ UNCHANGED <<owned, origin>>
    /\ UNCHANGED <<sdv, given, view>>

\* let <s> = Sid::owned_from_nonnull(ptr), ptr a SID the native subsystem just
\* allocated for the caller.
OwnedFromNonnull(s, rec) ==
    /\ Running /\ owned[s] = Null
    /\ LET ptr == BlockOf(s)
       IN  /\ alloc' = [alloc EXCEPT ![ptr] = "live"]
           /\ sidAt' = [sidAt EXCEPT ![ptr] = rec]
           /\ owned' = [owned EXCEPT ![s] = owned_from_nonnull(ptr)]
           /\ origin' = [origin EXCEPT ![s] = "raw"]
           /\ ret' = [op |-> "owned_from_nonnull", args |-> [slot |-> s, ptr |-> ptr],
                      res |-> Ok(ptr), calls |-> <<>>]
    /\ UNCHANGED <<sdv, given, view, badFrees>>

\* view = Sid::ref_from_nonnull(NonNull::new(<s>.as_ptr()).unwrap(), &<s>)
RefFromNonnull(s) ==
    /\ Running /\ owned[s] # Null /\ view = NoView
    /\ LET ptr == as_ptr(WrapAddr(s))
       IN  /\ view' = [ref |-> ref_from_nonnull(ptr), anchor |-> s]
           /\ ret' = [op |-> "ref_from_nonnull", args |-> [slot |-> s, ptr |-> ptr],
                      res |-> Ok(ref_from_nonnull(ptr)), calls |-> <<>>]
    /\ UNCHANGED <<alloc, sidAt, owned, origin, sdv, given, badFrees>>

\* The borrow ends.
EndBorrow ==
    /\ Running /\ view # NoView
    /\ view' = NoView
    /\ ret' = [op |-> "end_borrow", args |-> [ref |-> view.ref], res |-> Ok(0),
               calls |-> <<>>]
    /\ UNCHANGED <<alloc, sidAt, owned, origin, sdv, given, badFrees>>

\* drop(<s>)
DropSid(s) ==
    /\ Running /\ owned[s] # Null /\ view.anchor # s
    /\ LET frees == drop_Sid(owned[s])
           freed == FreeAll(frees, alloc)
       IN  /\ alloc' = freed.alloc
           /\ sidAt' = SidAtAfter(sidAt, freed.alloc)
           /\ badFrees' = badFrees \cup freed.bad
           /\ ret' = [op |-> "drop_sid", args |-> [slot |-> s, handle |-> owned[s]],
                      res |-> Ok(0), calls |-> FreeCalls(frees)]
    /\ owned' = [owned EXCEPT ![s] = Null]
    /\ origin' = [origin EXCEPT ![s] = "none"]
    /\ UNCHANGED <<sdv, given, view>>

\* sd = SecurityDescriptor::from_raw(..) on what a retrieval call returned: on
\* its failure a null descriptor and whatever the out-parameters held, on its
\* success a new buffer and, for each part the descriptor has, a pointer into it.
FromRaw(retrieved, has) ==
    /\ Running /\ sdv = NoSD
    /\ LET b == BlockOf("sd")
           sd == IF retrieved THEN b ELSE Null
           owner_p == IF ~has.owner THEN Null ELSE IF retrieved THEN OwnerPtr(b) ELSE DanglingPtr
           group_p == IF ~has.group THEN Null ELSE IF retrieved THEN GroupPtr(b) ELSE DanglingPtr
           dacl_p == IF ~has.dacl THEN Null ELSE IF retrieved THEN DaclPtr(b) ELSE DanglingPtr
           sacl_p == IF ~has.sacl THEN Null ELSE IF retrieved THEN SaclPtr(b) ELSE DanglingPtr
           out == from_raw(sd, owner_p, group_p, dacl_p, sacl_p)
           args == [sd |-> sd, owner |-> owner_p, group |-> group_p,
                    dacl |-> dacl_p, sacl |-> sacl_p]
       IN  /\ alloc' = IF retrieved THEN [alloc EXCEPT ![b] = "live"] ELSE alloc
           /\ sidAt' = IF retrieved
                       THEN [sidAt EXCEPT
                               ![OwnerPtr(b)] = IF has.owner THEN EmbeddedOwner ELSE NoSid,
                               ![GroupPtr(b)] = IF has.group THEN EmbeddedGroup ELSE NoSid]
                       ELSE sidAt
           /\ sdv' = IF out.res.tag = "ok" THEN out.res.val ELSE sdv
           /\ given' = IF out.res.tag = "ok" THEN args ELSE given
           /\ ret' = [op |-> "from_raw", args |-> args,
                      res |-> [tag |-> out.res.tag, val |-> 0], calls |-> out.calls]
    /\ UNCHANGED <<owned, origin, view, badFrees>>

\* view = sd.owner()
Owner ==
    /\ Running /\ sdv # NoSD /\ view = NoView
    /\ view' = IF owner(sdv).tag = "some"
               THEN [ref |-> owner(sdv).val, anchor |-> "sd"] ELSE view
    /\ ret' = [op |-> "owner", args |-> [sd |-> sdv.sd], res |-> owner(sdv), calls |-> <<>>]
    /\ UNCHANGED <<alloc, sidAt, owned, origin, sdv, given, badFrees>>

\* view = sd.group()
Group ==
    /\ Running /\ sdv # NoSD /\ view = NoView
    /\ view' = IF group(sdv).tag = "some"
               THEN [ref |-> group(sdv).val, anchor |-> "sd"] ELSE view
    /\ ret' = [op |-> "group", args |-> [sd |-> sdv.sd], res |-> group(sdv), calls |-> <<>>]
    /\ UNCHANGED <<alloc, sidAt, owned, origin, sdv, given, badFrees>>

\* drop(sd): LocalFree, then assert!(result.is_null())
DropSD ==
    /\ Running /\ sdv # NoSD /\ view.anchor # "sd"
    /\ LET frees == drop_SecurityDescriptor(sdv)
           freed == FreeAll(frees, alloc)
       IN  /\ alloc' = freed.alloc
           /\ sidAt' = SidAtAfter(sidAt, freed.alloc)
           /\ badFrees' = badFrees \cup freed.bad
           /\ ret' = [op |-> "drop_sd", args |-> [sd |-> sdv.sd],
                      res |-> IF freed.bad = {} THEN Ok(0) ELSE Panic,
                      calls |-> FreeCalls(frees)]
    /\ sdv' = NoSD
    /\ given' = NoArgs
    /\ UNCHANGED <<owned, origin, view>>

\* r.as_ptr()
AsPtr(r) ==
    /\ Running /\ r \in Refs
    /\ ret' = [op |-> "as_ptr", args |-> [self |-> r], res |-> Ok(as_ptr(r)),
               calls |-> <<Call("load", <<r>>, 0)>>]
    /\ UNCHANGED <<alloc, sidAt, owned, origin, sdv, given, view, badFrees>>

\* r.sub_authority_count()
SubAuthorityCount(r) ==
    /\ Running /\ r \in Refs
    /\ \E o \in sub_authority_count(r) :
          ret' = [op |-> "sub_authority_count", args |-> [self |-> r],
                  res |-> o.res, calls |-> o.calls]
    /\ UNCHANGED <<alloc, sidAt, owned, origin, sdv, given, view, badFrees>>

\* *r.id_authority()
IdAuthority(r) ==
    /\ Running /\ r \in Refs
    /\ \E o \in id_authority(r) :
          ret' = [op |-> "id_authority", args |-> [self |-> r],
                  res |-> o.res, calls |-> o.calls]
    /\ UNCHANGED <<alloc, sidAt, owned, origin, sdv, given, view, badFrees>>

\* r.sub_authority(index)
SubAuthority(r, index) ==
    /\ Running /\ r \in Refs
    /\ \E o \in sub_authority(r, index) :
          ret' = [op |-> "sub_authority", args |-> [self |-> r, index |-> index],
                  res |-> o.res, calls |-> o.calls]
    /\ UNCHANGED <<alloc, sidAt, owned, origin, sdv, given, view, badFrees>>

\* r1 == r2
Eq(r1, r2) ==
    /\ Running /\ r1 \in Refs /\ r2 \in Refs
    /\ \E o \in eq(r1, r2) :
          ret' = [op |-> "eq", args |-> [self |-> r1, other |-> r2],
                  res |-> o.res, calls |-> o.calls]
    /\ UNCHANGED <<alloc, sidAt, owned, origin, sdv, given, view, badFrees>>

\* What the native subsystem reports to Sid::new: the allocation failed, or it
\* succeeded and the validity check says valid or not.
NativeReports == {[allocated |-> FALSE, valid |-> FALSE],
                  [allocated |-> TRUE, valid |-> FALSE],
                  [allocated |-> TRUE, valid |-> TRUE]}

\* The parts a descriptor may have.  A failed retrieval leaves any of the four
\* out-parameters set; a retrieved descriptor has an owner or not, a group or
\* not, and both access-control lists or neither.
Parts == [owner : BOOLEAN, group : BOOLEAN, dacl : BOOLEAN, sacl : BOOLEAN]

RetrievedParts == {has \in Parts : has.dacl = has.sacl}

Next ==
    \/ \E s \in Slots, in \in SidInputs, nat \in NativeReports :
          SidNew(s, in[1], in[2], nat.allocated, nat.valid)
    \/ \E s \in Slots : OwnedFromNonnull(s, EmbeddedOwner)
    \/ \E s \in Slots : RefFromNonnull(s)
    \/ EndBorrow
    \/ \E s \in Slots : DropSid(s)
    \/ \E has \in RetrievedParts : FromRaw(TRUE, has)
    \/ \E has \in Parts : FromRaw(FALSE, has)
    \/ Owner
    \/ Group
    \/ DropSD
    \/ \E r \in Refs : AsPtr(r)
    \/ \E r \in Refs : SubAuthorityCount(r)
    \/ \E r \in Refs : IdAuthority(r)
    \/ \E r \in Refs, i \in IndexVals : SubAuthority(r, i)
    \/ \E r1 \in Refs, r2 \in Refs : Eq(r1, r2)

Spec == Init /\ [][Next]_vars

\* ---------------------------------------------------------------- properties

\* The SID record a `&Sid` stands for: the one an owning Sid's handle
\* addresses, or the one a borrowed view was created from.
IsOwnedRef(r) == \E s \in Slots : r = WrapAddr(s) /\ owned[s] # Null

IsViewRef(r) == view # NoView /\ r = view.ref

RecordAddr(r) == IF IsOwnedRef(r) THEN owned[CHOOSE s \in Slots : r = WrapAddr(s)] ELSE r

RecordOf(r) == sidAt[RecordAddr(r)]

SlotRefs(how) == {WrapAddr(s) : s \in {t \in Slots : origin[t] = how}}

LocalFrees(calls) == SelectSeq(calls, LAMBDA c : c.fn = "LocalFree")

\* C1: (as stated) whenever the native allocation and validity check succeed,
\* Sid::new returns an owning Sid whose record holds the authority and the
\* sub-authorities given, and on a Sid made by Sid::new id_authority() returns
\* those 6 bytes, sub_authority_count() the number of sub-authorities and
\* sub_authority(i) Some(the i-th value) for every i below it.
C1_RoundTrip ==
    /\ (ret.op = "new" /\ ret.args.allocated /\ ret.args.valid) =>
          /\ ret.res.tag = "ok"
          /\ owned[ret.args.slot] = ret.res.val
          /\ sidAt[ret.res.val] = SidRec(ret.args.id_auth, ret.args.sub_auths)
    /\ (ret.op = "sub_authority_count" /\ ret.args.self \in SlotRefs("new")) =>
          ret.res.tag = "ok" /\ ret.res.val = Len(RecordOf(ret.args.self).subs)
    /\ (ret.op = "sub_authority" /\ ret.args.self \in SlotRefs("new")
            /\ ret.args.index < Len(RecordOf(ret.args.self).subs)) =>
          /\ ret.res.tag = "some"
          /\ ret.res.val = RecordOf(ret.args.self).subs[ret.args.index + 1]
    /\ (ret.op = "id_authority" /\ ret.args.self \in SlotRefs("new")) =>
          ret.res.tag = "ok" /\ ret.res.val = RecordOf(ret.args.self).auth

\* C2: (as stated) for every Sid, owning or borrowed, whose record has c
\* sub-authorities, sub_authority(index) returns Some(the value at index) when
\* index < c and None when index >= c, and every native read it makes is of
\* that record and, for a sub-authority, of a slot below c.
C2_SubAuthorityChecked ==
    ret.op = "sub_authority" =>
        LET rec == RecordOf(ret.args.self)
            c == Len(rec.subs)
        IN  /\ ret.args.index < c =>
                  ret.res.tag = "some" /\ ret.res.val = rec.subs[ret.args.index + 1]
            /\ ret.args.index >= c => ret.res.tag = "none"
            /\ \A i \in DOMAIN ret.calls :
                  /\ ret.calls[i].args = <<RecordAddr(ret.args.self)>>
                  /\ ret.calls[i].fn = "GetSidSubAuthority" => ret.calls[i].n < c

\* C3: (as stated) for any two Sids the program holds, owning or borrowed,
\* == returns true exactly when their records have the same authority and
\* sub-authorities (so it is reflexive, symmetric and independent of the
\* buffers' addresses).
C3_EqualityByContent ==
    ret.op = "eq" =>
        /\ ret.res.tag = "ok"
        /\ ret.res.val = (RecordOf(ret.args.self).auth = RecordOf(ret.args.other).auth
                          /\ RecordOf(ret.args.self).subs = RecordOf(ret.args.other).subs)

\* C4: for a SecurityDescriptor from_raw built from a non-null descriptor
\* buffer, owner() is Some exactly when the owner pointer given to from_raw was
\* non-null and group() is Some exactly when the group pointer was, whatever
\* the other sub-pointers were; the view returned is the pointer given.
C4_OwnerGroupPresence ==
    /\ (ret.op = "from_raw" /\ ret.args.sd # Null) =>
          /\ ret.res.tag = "ok" /\ given = ret.args /\ sdv.sd = ret.args.sd
          /\ (owner(sdv).tag = "some") = (ret.args.owner # Null)
          /\ (group(sdv).tag = "some") = (ret.args.group # Null)
    /\ ret.op = "owner" =>
          /\ (ret.res.tag = "some") = (given.owner # Null)
          /\ (ret.res.tag = "none") = (given.owner = Null)
          /\ ret.res.tag = "some" => ret.res.val = given.owner
    /\ ret.op = "group" =>
          /\ (ret.res.tag = "some") = (given.group # Null)
          /\ (ret.res.tag = "none") = (given.group = Null)
          /\ ret.res.tag = "some" => ret.res.val = given.group

\* owner() returned a view of a descriptor that has no group and no ACLs
C4_Witness ==
    /\ ret.op = "owner" /\ ret.res.tag = "some"
    /\ given.sd # Null /\ given.group = Null /\ given.dacl = Null /\ given.sacl = Null

\* C5: (as stated) the view owner() or group() returns for a non-null pointer
\* p reports, through id_authority(), sub_authority_count() and
\* sub_authority(i), the authority, count and sub-authorities of the record at p.
C5_ViewReadsRecord ==
    /\ (ret.op = "owner" /\ given.owner # Null) =>
          ret.res.tag = "some" /\ ret.res.val = given.owner /\ IsSidRecord(given.owner)
    /\ (ret.op = "group" /\ given.group # Null) =>
          ret.res.tag = "some" /\ ret.res.val = given.group /\ IsSidRecord(given.group)
    /\ (ret.op \in {"id_authority", "sub_authority_count", "sub_authority"}
            /\ view.anchor = "sd" /\ ret.args.self = view.ref) =>
          /\ ret.op = "id_authority" =>
                ret.res.tag = "ok" /\ ret.res.val = sidAt[view.ref].auth
          /\ ret.op = "sub_authority_count" =>
                ret.res.tag = "ok" /\ ret.res.val = Len(sidAt[view.ref].subs)
          /\ (ret.op = "sub_authority" /\ ret.args.index < Len(sidAt[view.ref].subs)) =>
                /\ ret.res.tag = "some"
                /\ ret.res.val = sidAt[view.ref].subs[ret.args.index + 1]

\* C6: from_raw with a null descriptor buffer panics whatever the four
\* sub-pointers are, having dereferenced nothing and made no native call, and
\* leaves the caller without a SecurityDescriptor and the heap as it was.
C6_NullDescriptorPanics ==
    (ret.op = "from_raw" /\ ret.args.sd = Null) =>
        /\ ret.res.tag = "panic"
        /\ ret.calls = <<>>
        /\ sdv = NoSD /\ given = NoArgs
        /\ alloc[BlockOf("sd")] = "free"
        /\ badFrees = {}

\* from_raw panicked on a null descriptor whose four sub-pointers were all set
C6_Witness ==
    /\ ret.op = "from_raw" /\ ret.res.tag = "panic" /\ ret.args.sd = Null
    /\ ret.args.owner # Null /\ ret.args.group # Null
    /\ ret.args.dacl # Null /\ ret.args.sacl # Null

\* C7: LocalFree is only ever called on a live block (never twice on one
\* buffer, never on a sub-pointer or through a borrowed view); a block is live
\* exactly while one owning Sid or SecurityDescriptor holds it; destroying an
\* owner, the early return of Sid::new included, makes exactly one LocalFree
\* call, on that owner's buffer; no other operation makes one.
C7_ReleasedExactlyOnce ==
    /\ badFrees = {}
    /\ \A b \in HeapAddrs :
          Cardinality({o \in Owners : IF o = "sd" THEN sdv.sd = b ELSE owned[o] = b})
              = IF alloc[b] = "live" THEN 1 ELSE 0
    /\ ret.op = "drop_sid" =>
          ret.calls = <<Call("LocalFree", <<ret.args.handle>>, 0)>>
    /\ ret.op = "drop_sd" =>
          ret.calls = <<Call("LocalFree", <<ret.args.sd>>, 0)>> /\ ret.res.tag = "ok"
    /\ (ret.op = "new" /\ ret.args.allocated /\ ~ret.args.valid) =>
          LocalFrees(ret.calls) = <<Call("LocalFree", <<ret.args.handle>>, 0)>>
    /\ (ret.op = "new" /\ ~(ret.args.allocated /\ ~ret.args.valid)) =>
          LocalFrees(ret.calls) = <<>>
    /\ ret.op \notin {"drop_sid", "drop_sd", "new", "init"} =>
          LocalFrees(ret.calls) = <<>>

\* Sid::new dropped its Sid on the early return while a descriptor with an
\* owner was held
C7_Witness ==
    /\ ret.op = "new" /\ ret.args.allocated /\ ~ret.args.valid
    /\ sdv # NoSD /\ sdv.owner.some
    /\ alloc[ret.args.handle] = "free"

\* C8: Sid::new returns Ok(sid) exactly when the native allocation succeeded
\* and the native validity check reported the SID valid; otherwise it returns
\* the OS error and the caller's variable holds no Sid.
C8_NewOkOnlyIfValid ==
    ret.op = "new" =>
        /\ (ret.res.tag = "ok") = (ret.args.allocated /\ ret.args.valid)
        /\ ret.res.tag = "ok" =>
              owned[ret.args.slot] = ret.args.handle /\ IsSidRecord(ret.args.handle)
        /\ ret.res.tag # "ok" =>
              ret.res = OsError /\ owned[ret.args.slot] = Null

\* the allocation succeeded, the validity check did not, and Sid::new failed
C8_Witness ==
    /\ ret.op = "new" /\ ret.args.allocated /\ ~ret.args.valid
    /\ ret.res.tag = "err" /\ owned[ret.args.slot] = Null

\* C9: (as stated) as_ptr() returns the address of the native SID structure:
\* for an owning Sid the handle it holds, for a borrowed view the pointer the
\* view was created from.
C9_AsPtrIsRecordAddress ==
    ret.op = "as_ptr" =>
        /\ ret.res.val = RecordAddr(ret.args.self)
        /\ IsSidRecord(ret.res.val)

\* C10: (as stated) for an owning Sid, the address id_authority() hands to the
\* native GetSidIdentifierAuthority call is the handle the Sid holds (what
\* as_ptr() returns), not the address of the Sid value.
C10_AuthorityCallOnHandle ==
    (ret.op = "id_authority" /\ IsOwnedRef(ret.args.self)) =>
        /\ Len(ret.calls) = 1
        /\ ret.calls[1].fn = "GetSidIdentifierAuthority"
        /\ ret.calls[1].args = <<as_ptr(ret.args.self)>>
        /\ ret.calls[1].args # <<ret.args.self>>

====
